---- MODULE Spec2Model ----
(***************************************************************************)
(* Model of the sol2ink assembler (src/src/assembler.rs): the back end     *)
(* that turns a parsed Contract or Interface into a proc_macro2            *)
(* TokenStream.                                                            *)
(*                                                                         *)
(* A String is a sequence of one-character strings, so that byte order,    *)
(* casing and lexing are computed character by character.  A TokenStream   *)
(* is a flat sequence of tokens [k, v]: k is "ident", "punct", "lit"       *)
(* (numeric literal), "str" (string literal), "open" or "close" (the two   *)
(* ends of a delimited group), v is the token's text.                      *)
(***************************************************************************)
EXTENDS Integers, Sequences, FiniteSets, TLC

(***************************************************************************)
(* Characters                                                              *)
(***************************************************************************)

AsciiSeq ==
    <<" ", "!", "\"", "#", "$", "%", "&", "'", "(", ")", "*", "+", ",", "-", ".", "/", "0",
      "1", "2", "3", "4", "5", "6", "7", "8", "9", ":", ";", "<", "=", ">", "?", "@", "A", "B",
      "C", "D", "E", "F", "G", "H", "I", "J", "K", "L", "M", "N", "O", "P", "Q", "R", "S", "T",
      "U", "V", "W", "X", "Y", "Z", "[", "\\", "]", "^", "_", "<grave>", "a", "b", "c", "d", "e",
      "f", "g", "h", "i", "j", "k", "l", "m", "n", "o", "p", "q", "r", "s", "t", "u", "v", "w",
      "x", "y", "z", "{", "|", "}", "~">>
LowerSeq ==
    <<"a", "b", "c", "d", "e", "f", "g", "h", "i", "j", "k", "l", "m", "n", "o", "p", "q", "r",
      "s", "t", "u", "v", "w", "x", "y", "z">>
UpperSeq ==
    <<"A", "B", "C", "D", "E", "F", "G", "H", "I", "J", "K", "L", "M", "N", "O", "P", "Q", "R",
      "S", "T", "U", "V", "W", "X", "Y", "Z">>
DigitSeq == <<"0", "1", "2", "3", "4", "5", "6", "7", "8", "9">>

Range(s) == {s[i] : i \in 1..Len(s)}

Lower == Range(LowerSeq)

Upper == Range(UpperSeq)

Digit == Range(DigitSeq)

\* The byte value of a printable ASCII character (the u8 order of str::cmp); the
\* grave accent, which no input uses, only holds its place in AsciiSeq.
Ord[c \in Range(AsciiSeq) \cup {"\n", "\t"}] ==
    IF c = "\n" THEN 10
    ELSE IF c = "\t" THEN 9
    ELSE 31 + (CHOOSE i \in 1..Len(AsciiSeq) : AsciiSeq[i] = c)

\* char::to_lowercase on ASCII.
ToLower[c \in Range(AsciiSeq)] ==
    IF c \in Upper THEN LowerSeq[CHOOSE i \in 1..26 : UpperSeq[i] = c] ELSE c

(***************************************************************************)
(* The fixed words of the quote! templates                                 *)
(***************************************************************************)
w_cfg_attr == <<"c", "f", "g", "_", "a", "t", "t", "r">>
w_not == <<"n", "o", "t">>
w_feature == <<"f", "e", "a", "t", "u", "r", "e">>
w_no_std == <<"n", "o", "_", "s", "t", "d">>
w_min_specialization ==
    <<"m", "i", "n", "_", "s", "p", "e", "c", "i", "a", "l", "i", "z", "a", "t", "i", "o", "n">>
w_blank == <<"_", "b", "l", "a", "n", "k", "_">>
w_comment == <<"_", "c", "o", "m", "m", "e", "n", "t", "_">>
w_brush == <<"b", "r", "u", "s", "h">>
w_contract == <<"c", "o", "n", "t", "r", "a", "c", "t">>
w_pub == <<"p", "u", "b">>
w_mod == <<"m", "o", "d">>
w_impl == <<"i", "m", "p", "l">>
w_wrapper == <<"w", "r", "a", "p", "p", "e", "r">>
w_type == <<"t", "y", "p", "e">>
w_dyn == <<"d", "y", "n">>
w_trait_definition ==
    <<"t", "r", "a", "i", "t", "_", "d", "e", "f", "i", "n", "i", "t", "i", "o", "n">>
w_trait == <<"t", "r", "a", "i", "t">>
w_doc == <<"d", "o", "c">>
w_ink == <<"i", "n", "k">>
w_storage == <<"s", "t", "o", "r", "a", "g", "e">>
w_derive == <<"d", "e", "r", "i", "v", "e">>
w_Default == <<"D", "e", "f", "a", "u", "l", "t">>
w_SpreadAllocate == <<"S", "p", "r", "e", "a", "d", "A", "l", "l", "o", "c", "a", "t", "e">>
w_struct == <<"s", "t", "r", "u", "c", "t">>
w_enum == <<"e", "n", "u", "m">>
w_event == <<"e", "v", "e", "n", "t">>
w_topic == <<"t", "o", "p", "i", "c">>
w_Encode == <<"E", "n", "c", "o", "d", "e">>
w_Decode == <<"D", "e", "c", "o", "d", "e">>
w_scale_info == <<"s", "c", "a", "l", "e", "_", "i", "n", "f", "o">>
w_TypeInfo == <<"T", "y", "p", "e", "I", "n", "f", "o">>
w_constructor == <<"c", "o", "n", "s", "t", "r", "u", "c", "t", "o", "r">>
w_fn == <<"f", "n">>
w_new == <<"n", "e", "w">>
w_Self == <<"S", "e", "l", "f">>
w_ink_lang == <<"i", "n", "k", "_", "l", "a", "n", "g">>
w_codegen == <<"c", "o", "d", "e", "g", "e", "n">>
w_initialize_contract ==
    <<"i", "n", "i", "t", "i", "a", "l", "i", "z", "e", "_", "c", "o", "n", "t", "r", "a", "c",
      "t">>
w_instance == <<"i", "n", "s", "t", "a", "n", "c", "e">>
w_mut == <<"m", "u", "t">>
w_message == <<"m", "e", "s", "s", "a", "g", "e">>
w_payable == <<"p", "a", "y", "a", "b", "l", "e">>
w_todo == <<"t", "o", "d", "o">>
w_self == <<"s", "e", "l", "f">>
s_std == <<"s", "t", "d">>
s_generated ==
    <<"G", "e", "n", "e", "r", "a", "t", "e", "d", " ", "w", "i", "t", "h", " ", "S", "o", "l",
      "2", "I", "n", "k", " ", "v">>
s_link ==
    <<"h", "t", "t", "p", "s", ":", "/", "/", "g", "i", "t", "h", "u", "b", ".", "c", "o", "m",
      "/", "S", "u", "p", "e", "r", "c", "o", "l", "o", "n", "y", "-", "n", "e", "t", "/", "s",
      "o", "l", "2", "i", "n", "k", "\n">>
s_pub_fn == <<"p", "u", "b", " ", "f", "n", " ">>
s_fn_underscore == <<"f", "n", " ", "_">>
s_fn == <<"f", "n", " ">>
s_ref_self == <<"&", "s", "e", "l", "f">>
s_ref_mut_self == <<"&", "m", "u", "t", " ", "s", "e", "l", "f">>
s_line_comment == <<"/", "/", " ">>
s_Ref == <<"R", "e", "f">>

\* CARGO_PKG_VERSION as the example output shows it in its banner.
VERSION == <<"0", ".", "4", ".", "1">>

(***************************************************************************)
(* Tokens and fallible results                                             *)
(***************************************************************************)
Ident(w) == [k |-> "ident", v |-> w]

Punct(c) == [k |-> "punct", v |-> <<c>>]

Literal(w) == [k |-> "lit", v |-> w]

\* A String interpolated by quote! becomes a string literal token.
StrLit(s) == [k |-> "str", v |-> s]

Open(c) == [k |-> "open", v |-> <<c>>]

Close(c) == [k |-> "close", v |-> <<c>>]

\* A value that was produced, or the panic of an unwrap() / format_ident!.
Ok(ts) == [ok |-> TRUE, ts |-> ts]

Panic == [ok |-> FALSE, ts |-> <<>>]

\* TokenStream::extend of one fallible stream by the next.
Then(a, b) == IF a.ok /\ b.ok THEN Ok(a.ts \o b.ts) ELSE Panic

RECURSIVE ThenAll(_)
ThenAll(rs) ==
    IF rs = <<>> THEN Ok(<<>>) ELSE Then(Head(rs), ThenAll(Tail(rs)))

(***************************************************************************)
(* TokenStream::from_str: the proc_macro2 lexer on the characters the      *)
(* assembler feeds it                                                      *)
(***************************************************************************)
Whitespace == {" ", "\n", "\t"}

OpenDelims == {"(", "[", "{"}

CloseDelims == {")", "]", "}"}

Closer(c) == IF c = "(" THEN ")" ELSE IF c = "[" THEN "]" ELSE "}"

PunctChars ==
    {"~", "!", "@", "#", "$", "%", "^", "&", "*", "-", "=", "+", "|", ";", ":", ",",
     "<", ".", ">", "/", "?"}

IsIdentStart(c) == c \in Lower \cup Upper \cup {"_"}

IsIdentContinue(c) == IsIdentStart(c) \/ c \in Digit

\* The first index >= i of cs whose character is not an identifier character.
RECURSIVE IdentEnd(_, _)
IdentEnd(cs, i) ==
    IF i <= Len(cs) /\ IsIdentContinue(cs[i]) THEN IdentEnd(cs, i + 1) ELSE i

\* The index of the line break at or after i, or Len(cs) + 1.
RECURSIVE LineEnd(_, _)
LineEnd(cs, i) ==
    IF i <= Len(cs) /\ cs[i] # "\n" THEN LineEnd(cs, i + 1) ELSE i

StartsWith(cs, i, p) ==
    /\ i + Len(p) - 1 <= Len(cs)
    /\ \A j \in 1..Len(p) : cs[i + j - 1] = p[j]

\* "///x" and "//!x" are doc comments (tokens); any other "//" is skipped as
\* whitespace to the end of its line.
IsOuterDoc(cs, i) ==
    StartsWith(cs, i, <<"/", "/", "/">>) /\ ~StartsWith(cs, i, <<"/", "/", "/", "/">>)

IsInnerDoc(cs, i) == StartsWith(cs, i, <<"/", "/", "!">>)

IsLineComment(cs, i) ==
    StartsWith(cs, i, <<"/", "/">>) /\ ~IsOuterDoc(cs, i) /\ ~IsInnerDoc(cs, i)

DocTokens(inner, text) ==
    <<Punct("#")>> \o (IF inner THEN <<Punct("!")>> ELSE <<>>)
      \o <<Open("["), Ident(w_doc), Punct("="), StrLit(text), Close("]")>>

RECURSIVE LexFrom(_, _, _, _)
LexFrom(cs, i, stack, acc) ==
    IF i > Len(cs) THEN (IF stack = <<>> THEN Ok(acc) ELSE Panic)
    ELSE IF cs[i] \in Whitespace THEN LexFrom(cs, i + 1, stack, acc)
    ELSE IF IsLineComment(cs, i) THEN LexFrom(cs, LineEnd(cs, i), stack, acc)
    ELSE IF IsOuterDoc(cs, i) \/ IsInnerDoc(cs, i)
      THEN LexFrom(cs, LineEnd(cs, i), stack,
                   acc \o DocTokens(IsInnerDoc(cs, i),
                                    SubSeq(cs, i + 3, LineEnd(cs, i) - 1)))
    ELSE IF cs[i] \in OpenDelims
      THEN LexFrom(cs, i + 1, Append(stack, cs[i]), Append(acc, Open(cs[i])))
    ELSE IF cs[i] \in CloseDelims
      THEN IF stack # <<>> /\ Closer(stack[Len(stack)]) = cs[i]
             THEN LexFrom(cs, i + 1, SubSeq(stack, 1, Len(stack) - 1),
                          Append(acc, Close(cs[i])))
             ELSE Panic
    ELSE IF IsIdentStart(cs[i])
      THEN LexFrom(cs, IdentEnd(cs, i), stack,
                   Append(acc, Ident(SubSeq(cs, i, IdentEnd(cs, i) - 1))))
    ELSE IF cs[i] \in Digit
      THEN LexFrom(cs, IdentEnd(cs, i), stack,
                   Append(acc, Literal(SubSeq(cs, i, IdentEnd(cs, i) - 1))))
    ELSE IF cs[i] \in PunctChars
      THEN LexFrom(cs, i + 1, stack, Append(acc, Punct(cs[i])))
    ELSE Panic

\* TokenStream::from_str(s).unwrap_or_default(): a lexical error yields the
\* empty stream.
FromStr_unwrap_or_default(s) ==
    IF LexFrom(s, 1, <<>>, <<>>).ok THEN LexFrom(s, 1, <<>>, <<>>) ELSE Ok(<<>>)

\* TokenStream::from_str(s).unwrap()
FromStr(s) == LexFrom(s, 1, <<>>, <<>>)

\* format_ident!("{}", s): Ident::new panics unless s is an identifier.
FormatIdent(s) ==
    IF s # <<>> /\ IsIdentStart(s[1]) /\ IdentEnd(s, 1) = Len(s) + 1
      THEN Ok(<<Ident(s)>>)
      ELSE Panic

(***************************************************************************)
(* convert_case: s.to_case(Case::Snake)                                    *)
(***************************************************************************)
WordDelims == {"_", "-", " "}

\* A word boundary between cs[i] and cs[i + 1]: lower|Upper, letter|digit,
\* digit|letter, and the acronym rule (AB|Cd).
BoundaryAfter(cs, i) ==
    LET a == cs[i]
        b == cs[i + 1]
    IN  \/ a \in Lower /\ b \in Upper
        \/ a \in Upper /\ b \in Digit
        \/ a \in Digit /\ b \in Upper
        \/ a \in Digit /\ b \in Lower
        \/ a \in Lower /\ b \in Digit
        \/ a \in Upper /\ b \in Upper /\ i + 2 <= Len(cs) /\ cs[i + 2] \in Lower

RECURSIVE SplitWords(_, _, _, _)
SplitWords(cs, i, cur, words) ==
    IF i > Len(cs) THEN (IF cur = <<>> THEN words ELSE Append(words, cur))
    ELSE IF cs[i] \in WordDelims
      THEN SplitWords(cs, i + 1, <<>>, IF cur = <<>> THEN words ELSE Append(words, cur))
    ELSE IF i < Len(cs) /\ BoundaryAfter(cs, i)
      THEN SplitWords(cs, i + 1, <<>>, Append(words, Append(cur, cs[i])))
    ELSE SplitWords(cs, i + 1, Append(cur, cs[i]), words)

LowerWord(w) == [i \in 1..Len(w) |-> ToLower[w[i]]]

RECURSIVE JoinWords(_)
JoinWords(words) ==
    IF words = <<>> THEN <<>>
    ELSE IF Len(words) = 1 THEN LowerWord(words[1])
    ELSE LowerWord(words[1]) \o <<"_">> \o JoinWords(Tail(words))

ToSnake(s) == JoinWords(SplitWords(s, 1, <<>>, <<>>))

(***************************************************************************)
(* Pieces of the quote! templates                                          *)
(***************************************************************************)
\* _blank_!();
Blank == <<Ident(w_blank), Punct("!"), Open("("), Close(")"), Punct(";")>>

\* _comment_!(#s);
Comment(s) ==
    <<Ident(w_comment), Punct("!"), Open("("), StrLit(s), Close(")"), Punct(";")>>

\* #[doc = #comment]
DocAttr(comment) ==
    <<Punct("#"), Open("["), Ident(w_doc), Punct("="), StrLit(comment), Close("]")>>

\* #[ink(<word>)]
InkAttr(word) ==
    <<Punct("#"), Open("["), Ident(w_ink), Open("("), Ident(word), Close(")"), Close("]")>>

\* #[ink(message, payable)]
InkMessagePayable ==
    <<Punct("#"), Open("["), Ident(w_ink), Open("("), Ident(w_message), Punct(","),
      Ident(w_payable), Close(")"), Close("]")>>

\* #[brush::<word>]
BrushAttr(word) ==
    <<Punct("#"), Open("["), Ident(w_brush), Punct(":"), Punct(":"), Ident(word),
      Close("]")>>

\* #![cfg_attr(not(feature = "std"), no_std)] #![feature(min_specialization)]
CrateAttrs ==
    <<Punct("#"), Punct("!"), Open("["), Ident(w_cfg_attr), Open("("), Ident(w_not),
      Open("("), Ident(w_feature), Punct("="), StrLit(s_std), Close(")"), Punct(","),
      Ident(w_no_std), Close(")"), Close("]"),
      Punct("#"), Punct("!"), Open("["), Ident(w_feature), Open("("),
      Ident(w_min_specialization), Close(")"), Close("]")>>

\* #[derive(Default, SpreadAllocate)]
DeriveStorage ==
    <<Punct("#"), Open("["), Ident(w_derive), Open("("), Ident(w_Default), Punct(","),
      Ident(w_SpreadAllocate), Close(")"), Close("]")>>

\* #[derive(Default, Encode, Decode)]
\* #[cfg_attr(feature = "std", derive(scale_info::TypeInfo))]
DeriveStruct ==
    <<Punct("#"), Open("["), Ident(w_derive), Open("("), Ident(w_Default), Punct(","),
      Ident(w_Encode), Punct(","), Ident(w_Decode), Close(")"), Close("]"),
      Punct("#"), Open("["), Ident(w_cfg_attr), Open("("), Ident(w_feature), Punct("="),
      StrLit(s_std), Punct(","), Ident(w_derive), Open("("), Ident(w_scale_info),
      Punct(":"), Punct(":"), Ident(w_TypeInfo), Close(")"), Close(")"), Close("]")>>

Arrow == <<Punct("-"), Punct(">")>>

\* The doc attributes of a comments list, in order.
RECURSIVE DocAttrs(_)
DocAttrs(comments) ==
    IF comments = <<>> THEN <<>> ELSE DocAttr(Head(comments)) \o DocAttrs(Tail(comments))

(***************************************************************************)
(* The sub-emitters                                                        *)
(***************************************************************************)
signature ==
    Comment(s_generated \o VERSION \o <<"\n">>) \o Comment(s_link) \o Blank

assemble_contract_comments(comments) == Ok(DocAttrs(comments))

\* a < b in the byte-wise lexicographic order of String.
RECURSIVE StrLess(_, _)
StrLess(a, b) ==
    IF b = <<>> THEN FALSE
    ELSE IF a = <<>> THEN TRUE
    ELSE IF Ord[Head(a)] # Ord[Head(b)] THEN Ord[Head(a)] < Ord[Head(b)]
    ELSE StrLess(Tail(a), Tail(b))

\* s inserted into the sorted vector v.
RECURSIVE Insert(_, _)
Insert(s, v) ==
    IF v = <<>> THEN <<s>>
    ELSE IF StrLess(Head(v), s) THEN <<Head(v)>> \o Insert(s, Tail(v))
    ELSE <<s>> \o v

RECURSIVE SortedInsertAll(_, _)
SortedInsertAll(v, acc) ==
    IF v = <<>> THEN acc ELSE SortedInsertAll(Tail(v), Insert(Head(v), acc))

\* output_vec.sort() left the vector as it came out of the HashSet.
sort_skipped(v) == v

\* output_vec.sort()
sort(v) == SortedInsertAll(v, <<>>)

\* iter is the order in which Vec::from_iter(imports) drew the HashSet.
assemble_imports(iter) ==
    LET output_vec == sort(iter)
    IN  Then(ThenAll([i \in 1..Len(output_vec) |-> FromStr(output_vec[i])]), Ok(Blank))

assemble_enums(enums) ==
    LET value(v) == Then(FromStr(v), Ok(<<Punct(",")>>))
        item(e) ==
            ThenAll(<<Ok(DocAttrs(e.comments)),
                      Ok(<<Ident(w_pub), Ident(w_enum)>>),
                      FromStr(e.name),
                      Ok(<<Open("{")>>),
                      ThenAll([i \in 1..Len(e.values) |-> value(e.values[i])]),
                      Ok(<<Close("}")>>),
                      Ok(Blank)>>)
    IN  ThenAll([i \in 1..Len(enums) |-> item(enums[i])])

assemble_events(events) ==
    LET field(f) ==
            ThenAll(<<Ok(IF f.indexed THEN InkAttr(w_topic) ELSE <<>>),
                      FormatIdent(ToSnake(f.name)),
                      Ok(<<Punct(":")>>),
                      FromStr(f.field_type),
                      Ok(<<Punct(",")>>)>>)
        item(e) ==
            ThenAll(<<Ok(DocAttrs(e.comments)),
                      Ok(InkAttr(w_event)),
                      Ok(<<Ident(w_pub), Ident(w_struct)>>),
                      FromStr(e.name),
                      Ok(<<Open("{")>>),
                      ThenAll([i \in 1..Len(e.fields) |-> field(e.fields[i])]),
                      Ok(<<Close("}")>>),
                      Ok(Blank)>>)
    IN  ThenAll([i \in 1..Len(events) |-> item(events[i])])

\* name: type,
NamedFields(fields) ==
    LET field(f) ==
            ThenAll(<<FormatIdent(ToSnake(f.name)),
                      Ok(<<Punct(":")>>),
                      FromStr(f.field_type),
                      Ok(<<Punct(",")>>)>>)
    IN  ThenAll([i \in 1..Len(fields) |-> field(fields[i])])

\* The storage struct named like the module.
StorageName_snake(contract_name) == FormatIdent(ToSnake(contract_name))

\* let contract_name = format_ident!("{}", contract_name);
StorageName(contract_name) == FormatIdent(contract_name)

assemble_storage(contract_name, fields) ==
    ThenAll(<<Ok(InkAttr(w_storage)),
              Ok(DeriveStorage),
              Ok(<<Ident(w_pub), Ident(w_struct)>>),
              StorageName(contract_name),
              Ok(<<Open("{")>>),
              NamedFields(fields),
              Ok(<<Close("}")>>),
              Ok(Blank)>>)

assemble_structs(structs) ==
    LET item(s) ==
            ThenAll(<<Ok(DocAttrs(s.comments)),
                      Ok(DeriveStruct),
                      Ok(<<Ident(w_pub), Ident(w_struct)>>),
                      FromStr(s.name),
                      Ok(<<Open("{")>>),
                      NamedFields(s.fields),
                      Ok(<<Close("}")>>),
                      Ok(Blank)>>)
    IN  ThenAll([i \in 1..Len(structs) |-> item(structs[i])])

\* A payable function given its attribute whether or not it is external.
Message_payable_alone(external, payable) ==
    IF payable THEN InkMessagePayable
    ELSE IF external THEN InkAttr(w_message)
    ELSE <<>>

\* #[ink(message, payable)], #[ink(message)] or nothing.
Message(external, payable) ==
    IF external
      THEN (IF payable THEN InkMessagePayable ELSE InkAttr(w_message))
      ELSE <<>>

\* &self or &mut self
View(view) == FromStr(IF view THEN s_ref_self ELSE s_ref_mut_self)

\* , name: type
Params(params) ==
    LET param(p) ==
            ThenAll(<<Ok(<<Punct(",")>>),
                      FormatIdent(ToSnake(p.name)),
                      Ok(<<Punct(":")>>),
                      FromStr(p.param_type)>>)
    IN  ThenAll([i \in 1..Len(params) |-> param(params[i])])

\* The types of the return parameters, comma-separated.
ReturnTypes(return_params) ==
    LET one(i) ==
            Then(Ok(IF i > 1 THEN <<Punct(",")>> ELSE <<>>),
                 FromStr(return_params[i].param_type))
    IN  ThenAll([i \in 1..Len(return_params) |-> one(i)])

\* The return arrow parenthesised whatever the number of return parameters.
ReturnParams_always_paren(return_params) ==
    IF return_params = <<>> THEN Ok(<<>>)
    ELSE ThenAll(<<Ok(Arrow), Ok(<<Open("(")>>), ReturnTypes(return_params),
                   Ok(<<Close(")")>>)>>)

\* Nothing, -> T, or -> (T, U, ...)
ReturnParams(return_params) ==
    IF return_params = <<>> THEN Ok(<<>>)
    ELSE IF Len(return_params) > 1
      THEN ThenAll(<<Ok(Arrow), Ok(<<Open("(")>>), ReturnTypes(return_params),
                     Ok(<<Close(")")>>)>>)
      ELSE Then(Ok(Arrow), ReturnTypes(return_params))

assemble_constructor(constructor) ==
    LET param(p) ==
            ThenAll(<<FormatIdent(ToSnake(p.name)),
                      Ok(<<Punct(":")>>),
                      FromStr(p.param_type),
                      Ok(<<Punct(",")>>)>>)
        params == ThenAll([i \in 1..Len(constructor.header.params) |->
                               param(constructor.header.params[i])])
        body == ThenAll([i \in 1..Len(constructor.body) |->
                             FromStr(s_line_comment \o constructor.body[i].content)])
    IN  ThenAll(<<Ok(InkAttr(w_constructor)),
                  Ok(<<Ident(w_pub), Ident(w_fn), Ident(w_new), Open("(")>>),
                  params,
                  Ok(<<Close(")")>> \o Arrow \o <<Ident(w_Self), Open("{")>>),
                  Ok(<<Ident(w_ink_lang), Punct(":"), Punct(":"), Ident(w_codegen),
                       Punct(":"), Punct(":"), Ident(w_initialize_contract), Open("("),
                       Punct("|"), Ident(w_instance), Punct(":"), Punct("&"),
                       Ident(w_mut), Ident(w_Self), Punct("|"), Open("{")>>),
                  body,
                  Ok(<<Close("}"), Close(")"), Close("}")>>),
                  Ok(Blank)>>)

\* pub fn <name> or fn _<name>
FunctionName(header) ==
    FromStr((IF header.external THEN s_pub_fn ELSE s_fn_underscore)
              \o ToSnake(header.name))

\* One statement of a function body: _comment_!(content); when its comment flag
\* is set, TokenStream::from_str(content).unwrap() otherwise.
BodyStatement(statement) ==
    IF statement.comment THEN Ok(Comment(statement.content))
    ELSE FromStr(statement.content)

\* A body that ends with todo!() only when it has no statement.
FunctionBody_todo_when_empty(body) ==
    Then(ThenAll([j \in 1..Len(body) |-> BodyStatement(body[j])]),
         Ok(IF body = <<>> THEN <<Ident(w_todo), Punct("!"), Open("("), Close(")")>>
            ELSE <<>>))

\* What stands between the braces of a function: #body then todo!()
FunctionBody(body) ==
    Then(ThenAll([j \in 1..Len(body) |-> BodyStatement(body[j])]),
         Ok(<<Ident(w_todo), Punct("!"), Open("("), Close(")")>>))

assemble_functions(functions) ==
    LET item(i) ==
            LET function == functions[i]
            IN  ThenAll(<<Ok(Message(function.header.external, function.header.payable)),
                          FunctionName(function.header),
                          Ok(<<Open("(")>>),
                          View(function.header.view),
                          Params(function.header.params),
                          Ok(<<Close(")")>>),
                          ReturnParams(function.header.return_params),
                          Ok(<<Open("{")>>),
                          FunctionBody(function.body),
                          Ok(<<Close("}")>>),
                          Ok(IF i < Len(functions) THEN Blank ELSE <<>>)>>)
    IN  ThenAll([i \in 1..Len(functions) |-> item(i)])

\* The message attribute of a trait method.
HeaderMessage(external, payable) ==
    IF external
      THEN (IF payable THEN InkMessagePayable ELSE InkAttr(w_message))
      ELSE <<>>

\* The receiver of a trait method.
HeaderView(view) == FromStr(IF view THEN s_ref_self ELSE s_ref_mut_self)

\* The parameters of a trait method.
HeaderParams(params) ==
    LET param(p) ==
            ThenAll(<<Ok(<<Punct(",")>>),
                      FormatIdent(ToSnake(p.name)),
                      Ok(<<Punct(":")>>),
                      FromStr(p.param_type)>>)
    IN  ThenAll([i \in 1..Len(params) |-> param(params[i])])

\* The return arrow of a trait method.
HeaderReturnParams(return_params) ==
    IF return_params = <<>> THEN Ok(<<>>)
    ELSE IF Len(return_params) > 1
      THEN ThenAll(<<Ok(Arrow), Ok(<<Open("(")>>), ReturnTypes(return_params),
                     Ok(<<Close(")")>>)>>)
      ELSE Then(Ok(Arrow), ReturnTypes(return_params))

assemble_function_headers(function_headers) ==
    LET item(i) ==
            LET function == function_headers[i]
            IN  ThenAll(<<Ok(DocAttrs(function.comments)),
                          Ok(HeaderMessage(function.external, function.payable)),
                          FromStr(s_fn \o ToSnake(function.name)),
                          Ok(<<Open("(")>>),
                          HeaderView(function.view),
                          HeaderParams(function.params),
                          Ok(<<Close(")")>>),
                          HeaderReturnParams(function.return_params),
                          Ok(<<Punct(";")>>),
                          Ok(IF i < Len(function_headers) THEN Blank ELSE <<>>)>>)
    IN  ThenAll([i \in 1..Len(function_headers) |-> item(i)])

(***************************************************************************)
(* The orchestrators                                                       *)
(***************************************************************************)
\* The quote! of assemble_contract with the enums spliced before the events.
ContractTemplate_enums_first(p) ==
    ThenAll(<<Ok(CrateAttrs), Ok(Blank), Ok(signature), p.comments,
              Ok(BrushAttr(w_contract)), Ok(<<Ident(w_pub), Ident(w_mod)>>), p.mod_name,
              Ok(<<Open("{")>>),
              p.imports, p.enums, p.events, p.structs, p.storage,
              Ok(<<Ident(w_impl)>>), p.mod_name, Ok(<<Open("{")>>),
              p.constructor, p.functions,
              Ok(<<Close("}"), Close("}")>>)>>)

\* The quote! of assemble_contract.
ContractTemplate(p) ==
    ThenAll(<<Ok(CrateAttrs), Ok(Blank), Ok(signature), p.comments,
              Ok(BrushAttr(w_contract)), Ok(<<Ident(w_pub), Ident(w_mod)>>), p.mod_name,
              Ok(<<Open("{")>>),
              p.imports, p.events, p.enums, p.structs, p.storage,
              Ok(<<Ident(w_impl)>>), p.mod_name, Ok(<<Open("{")>>),
              p.constructor, p.functions,
              Ok(<<Close("}"), Close("}")>>)>>)

\* iter is the order in which the HashSet of imports is drawn in this call.
assemble_contract(contract, iter) ==
    ContractTemplate([mod_name |-> FormatIdent(ToSnake(contract.name)),
                      imports |-> assemble_imports(iter),
                      events |-> assemble_events(contract.events),
                      enums |-> assemble_enums(contract.enums),
                      structs |-> assemble_structs(contract.structs),
                      storage |-> assemble_storage(contract.name, contract.fields),
                      constructor |-> assemble_constructor(contract.constructor),
                      functions |-> assemble_functions(contract.functions),
                      comments |-> assemble_contract_comments(contract.comments)])

\* The quote! of assemble_interface with the alias after the trait.
InterfaceTemplate_alias_last(p) ==
    ThenAll(<<Ok(signature), p.imports, p.events, p.enums, p.structs,
              Ok(BrushAttr(w_trait_definition)),
              Ok(<<Ident(w_pub), Ident(w_trait)>>), p.interface_name, Ok(<<Open("{")>>),
              p.function_headers,
              Ok(<<Close("}")>>),
              Ok(BrushAttr(w_wrapper)),
              Ok(<<Ident(w_pub), Ident(w_type)>>), p.interface_name_ref,
              Ok(<<Punct("="), Ident(w_dyn)>>), p.interface_name, Ok(<<Punct(";")>>),
              Ok(Blank)>>)

\* The quote! of assemble_interface.
InterfaceTemplate(p) ==
    ThenAll(<<Ok(signature), p.imports, p.events, p.enums, p.structs,
              Ok(BrushAttr(w_wrapper)),
              Ok(<<Ident(w_pub), Ident(w_type)>>), p.interface_name_ref,
              Ok(<<Punct("="), Ident(w_dyn)>>), p.interface_name, Ok(<<Punct(";")>>),
              Ok(Blank),
              Ok(BrushAttr(w_trait_definition)),
              Ok(<<Ident(w_pub), Ident(w_trait)>>), p.interface_name, Ok(<<Open("{")>>),
              p.function_headers,
              Ok(<<Close("}")>>)>>)

assemble_interface(interface, iter) ==
    InterfaceTemplate([interface_name |-> FromStr(interface.name),
                       interface_name_ref |-> FromStr(interface.name \o s_Ref),
                       imports |-> assemble_imports(iter),
                       events |-> assemble_events(interface.events),
                       enums |-> assemble_enums(interface.enums),
                       structs |-> assemble_structs(interface.structs),
                       function_headers |->
                           assemble_function_headers(interface.function_headers)])

(***************************************************************************)
(* The inputs: Contract and Interface values, with the fields that         *)
(* assembler.rs reads of crate::structures                                 *)
(***************************************************************************)
MaxItems == 2

MaxImports == 3

MaxCalls == 2

t_Ab == <<"A", "b">>
t_aB == <<"a", "B">>
t_Cd == <<"C", "d">>
t_cD == <<"c", "D">>
t_u8 == <<"u", "8">>
t_pair == <<"(", "u", "8", ",", " ", "A", "b", ")">>
t_unclosed == <<"(", "u", "8">>
t_x == <<"x">>
t_y == <<"y", " ", "z">>
t_use_a == <<"u", "s", "e", " ", "a", ";">>
t_use_B == <<"u", "s", "e", " ", "B", ";">>
t_use_ab == <<"u", "s", "e", " ", "a", "b", ";">>
t_use_unclosed == <<"u", "s", "e", " ", "{", "a", ";">>
t_stmt == <<"a", " ", "=", " ", "1", ";">>
t_note == <<"a", " ", "b">>
t_two_lines == <<"a", "\n", "(">>
t_V == <<"V">>
t_W == <<"W">>

SeqsUpTo(U, n) == UNION {[1..k -> U] : k \in 0..n}

TypeNames == {t_Ab, t_aB}

Comments == {t_x, t_y}

Imports == {t_use_a, t_use_B, t_use_ab, t_use_unclosed}

ImportSets == {s \in SUBSET Imports : Cardinality(s) <= MaxImports}

Param(name, type) == [name |-> name, param_type |-> type]

Field(name, type) == [name |-> name, field_type |-> type]

Fields == {Field(t_aB, t_u8), Field(t_Cd, t_Ab), Field(t_x, t_unclosed)}

Events ==
    {[name |-> t_Cd, comments |-> <<t_x>>,
      fields |-> <<[name |-> t_aB, field_type |-> t_u8, indexed |-> TRUE],
                   [name |-> t_x, field_type |-> t_Ab, indexed |-> FALSE]>>],
     [name |-> t_cD, comments |-> <<>>, fields |-> <<>>]}

Enums ==
    {[name |-> t_Cd, comments |-> <<t_y>>, values |-> <<t_V, t_W>>],
     [name |-> t_cD, comments |-> <<>>, values |-> <<>>]}

Structs ==
    {[name |-> t_Cd, comments |-> <<t_x>>, fields |-> <<Field(t_aB, t_u8)>>],
     [name |-> t_cD, comments |-> <<>>, fields |-> <<>>]}

Statements ==
    {[content |-> t_stmt, comment |-> FALSE],
     [content |-> t_note, comment |-> TRUE],
     [content |-> t_unclosed, comment |-> FALSE]}

Header(name, external, payable, return_params) ==
    [name |-> name, params |-> <<>>, return_params |-> return_params,
     external |-> external, view |-> ~payable, payable |-> payable, comments |-> <<>>]

\* The four external / payable combinations, each under a name of its own.
FlagHeaders ==
    {Header(t_aB, TRUE, TRUE, <<>>), Header(t_Ab, TRUE, FALSE, <<>>),
     Header(t_cD, FALSE, TRUE, <<>>), Header(t_Cd, FALSE, FALSE, <<>>)}

ReturnLists == SeqsUpTo({Param(t_x, t_u8), Param(t_y, t_pair), Param(t_x, t_Ab)}, MaxItems)

\* One header per list of return parameters, external or not.
ReturnHeaders ==
    {Header(t_aB, e, FALSE, r) : e \in BOOLEAN, r \in ReturnLists}

\* Headers with parameters and comments.
ParamHeaders ==
    {[Header(t_aB, TRUE, FALSE, <<Param(t_x, t_u8)>>) EXCEPT
        !.params = ps, !.comments = cs, !.view = v] :
       ps \in SeqsUpTo({Param(t_cD, t_u8), Param(t_x, t_unclosed)}, 1),
       cs \in SeqsUpTo(Comments, 1), v \in BOOLEAN}

HeaderLists ==
    SeqsUpTo(FlagHeaders, MaxItems)
      \cup {<<h>> : h \in ReturnHeaders \cup ParamHeaders}

Function(header, body) == [header |-> header, body |-> body]

FunctionLists ==
    {[i \in 1..Len(hs) |-> Function(hs[i], <<>>)] : hs \in HeaderLists}
      \cup {<<Function(Header(t_aB, e, FALSE, <<>>), b)>> :
              e \in BOOLEAN, b \in SeqsUpTo(Statements, MaxItems)}

\* The statements of a constructor: those of a function, and a note of two lines
\* whose second line opens a group it does not close.
ConstructorStatements ==
    Statements \cup {[content |-> t_two_lines, comment |-> TRUE]}

Constructors ==
    {Function(Header(<<"n", "e", "w">>, TRUE, FALSE, <<>>), b) :
       b \in SeqsUpTo(ConstructorStatements, MaxItems)}
      \cup {Function([Header(<<"n", "e", "w">>, TRUE, FALSE, <<>>) EXCEPT !.params = ps],
                     <<>>) :
              ps \in SeqsUpTo({Param(t_cD, t_u8), Param(t_x, t_unclosed)}, MaxItems)}

EmptyContract ==
    [name |-> t_Ab, imports |-> {}, events |-> <<>>, enums |-> <<>>, structs |-> <<>>,
     fields |-> <<>>, constructor |-> Function(Header(<<"n", "e", "w">>, TRUE, FALSE, <<>>), <<>>),
     functions |-> <<>>, comments |-> <<>>]

\* Every section populated, two items where the section is a list.
FullContract ==
    [name |-> t_aB, imports |-> {t_use_a, t_use_B},
     events |-> <<CHOOSE e \in Events : e.name = t_cD, CHOOSE e \in Events : e.name = t_Cd>>,
     enums |-> <<CHOOSE e \in Enums : e.name = t_Cd, CHOOSE e \in Enums : e.name = t_cD>>,
     structs |-> <<CHOOSE s \in Structs : s.name = t_cD, CHOOSE s \in Structs : s.name = t_Cd>>,
     fields |-> <<Field(t_aB, t_u8), Field(t_Cd, t_Ab)>>,
     constructor |->
         Function([Header(<<"n", "e", "w">>, TRUE, FALSE, <<>>) EXCEPT
                     !.params = <<Param(t_cD, t_u8)>>],
                  <<[content |-> t_stmt, comment |-> FALSE]>>),
     functions |->
         <<Function(Header(t_Cd, FALSE, FALSE, <<Param(t_x, t_u8)>>),
                    <<[content |-> t_note, comment |-> TRUE]>>),
           Function(Header(t_aB, TRUE, TRUE, <<Param(t_x, t_u8), Param(t_y, t_Ab)>>),
                    <<[content |-> t_stmt, comment |-> FALSE]>>)>>,
     comments |-> <<t_y, t_x>>]

\* The contracts that differ from base in at most one field.
ContractsAround(base) ==
    {[base EXCEPT !.name = n] : n \in TypeNames}
      \cup {[base EXCEPT !.imports = s] : s \in ImportSets}
      \cup {[base EXCEPT !.events = s] : s \in SeqsUpTo(Events, MaxItems)}
      \cup {[base EXCEPT !.enums = s] : s \in SeqsUpTo(Enums, MaxItems)}
      \cup {[base EXCEPT !.structs = s] : s \in SeqsUpTo(Structs, MaxItems)}
      \cup {[base EXCEPT !.fields = s] : s \in SeqsUpTo(Fields, MaxItems)}
      \cup {[base EXCEPT !.constructor = c] : c \in Constructors}
      \cup {[base EXCEPT !.functions = s] : s \in FunctionLists}
      \cup {[base EXCEPT !.comments = s] : s \in SeqsUpTo(Comments, MaxItems)}

Contracts == ContractsAround(EmptyContract) \cup ContractsAround(FullContract)

EmptyInterface ==
    [name |-> t_Ab, imports |-> {}, events |-> <<>>, enums |-> <<>>, structs |-> <<>>,
     function_headers |-> <<>>, comments |-> <<>>]

FullInterface ==
    [name |-> t_aB, imports |-> FullContract.imports, events |-> FullContract.events,
     enums |-> FullContract.enums, structs |-> FullContract.structs,
     function_headers |->
         <<Header(t_Cd, TRUE, FALSE, <<Param(t_x, t_u8)>>),
           [Header(t_aB, TRUE, TRUE, <<>>) EXCEPT !.comments = <<t_x>>]>>,
     comments |-> <<t_y, t_x>>]

\* The interfaces that differ from base in at most one field.
InterfacesAround(base) ==
    {[base EXCEPT !.name = n] : n \in TypeNames}
      \cup {[base EXCEPT !.imports = s] : s \in ImportSets}
      \cup {[base EXCEPT !.events = s] : s \in SeqsUpTo(Events, MaxItems)}
      \cup {[base EXCEPT !.enums = s] : s \in SeqsUpTo(Enums, MaxItems)}
      \cup {[base EXCEPT !.structs = s] : s \in SeqsUpTo(Structs, MaxItems)}
      \cup {[base EXCEPT !.function_headers = s] : s \in HeaderLists}
      \cup {[base EXCEPT !.comments = s] : s \in SeqsUpTo(Comments, MaxItems)}

Interfaces == InterfacesAround(EmptyInterface) \cup InterfacesAround(FullInterface)

(***************************************************************************)
(* The state: one input and the results of the calls made on it so far     *)
(***************************************************************************)
VARIABLES kind, cir, calls

vars == <<kind, cir, calls>>

Init ==
    /\ kind \in {"contract", "interface"}
    /\ cir \in (IF kind = "contract" THEN Contracts ELSE Interfaces)
    /\ calls = <<>>

\* The orders in which iterating a HashSet may yield its elements.
IterOrders(set) ==
    {iter \in [1..Cardinality(set) -> set] : Range(iter) = set}

\* One call assemble_contract(cir): it returns a token stream or panics.
CallAssembleContract ==
    /\ kind = "contract"
    /\ Len(calls) < MaxCalls
    /\ \E iter \in IterOrders(cir.imports) :
         calls' = Append(calls, assemble_contract(cir, iter))
    /\ UNCHANGED <<kind, cir>>

\* One call assemble_interface(cir).
CallAssembleInterface ==
    /\ kind = "interface"
    /\ Len(calls) < MaxCalls
    /\ \E iter \in IterOrders(cir.imports) :
         calls' = Append(calls, assemble_interface(cir, iter))
    /\ UNCHANGED <<kind, cir>>

Next == CallAssembleContract \/ CallAssembleInterface

Spec == Init /\ [][Next]_vars

(***************************************************************************)
(* Reading a returned token stream                                         *)
(***************************************************************************)
\* The calls that returned a token stream.
Returned == {i \in 1..Len(calls) : calls[i].ok}

OccursAt(ts, i, phrase) ==
    /\ i >= 1
    /\ i + Len(phrase) - 1 <= Len(ts)
    /\ SubSeq(ts, i, i + Len(phrase) - 1) = phrase

Positions(ts, phrase) == {i \in 1..Len(ts) : OccursAt(ts, i, phrase)}

Count(ts, phrase) == Cardinality(Positions(ts, phrase))

\* A set of indices as an ascending sequence.
RECURSIVE Ascending(_)
Ascending(set) ==
    IF set = {} THEN <<>>
    ELSE LET m == CHOOSE x \in set : \A y \in set : x <= y
         IN  <<m>> \o Ascending(set \ {m})

\* The least index of set above i, or 0.
FirstAfter(set, i) ==
    IF \E x \in set : x > i
      THEN CHOOSE x \in set : x > i /\ \A y \in set : y > i => x <= y
      ELSE 0

\* The opening minus the closing delimiters among ts[i..j].
Nesting(ts, i, j) ==
    Cardinality({x \in i..j : ts[x].k = "open"})
      - Cardinality({x \in i..j : ts[x].k = "close"})

\* The index of the token closing the group opened at i, or 0.
MatchingClose(ts, i) ==
    IF \E j \in (i + 1)..Len(ts) : Nesting(ts, i, j) = 0
      THEN CHOOSE j \in (i + 1)..Len(ts) :
             Nesting(ts, i, j) = 0 /\ \A x \in (i + 1)..(j - 1) : Nesting(ts, i, x) # 0
      ELSE 0

\* A commentary marker _comment_!("..."); at i.
IsCommentAt(ts, i) ==
    /\ i + 5 <= Len(ts)
    /\ ts[i] = Ident(w_comment)
    /\ ts[i + 1] = Punct("!")
    /\ ts[i + 2] = Open("(")
    /\ ts[i + 3].k = "str"
    /\ ts[i + 4] = Close(")")
    /\ ts[i + 5] = Punct(";")

\* The signature banner at i: two commentary markers, then a blank-line marker.
IsBannerAt(ts, i) ==
    IsCommentAt(ts, i) /\ IsCommentAt(ts, i + 6) /\ OccursAt(ts, i + 12, Blank)

\* Two commentary markers of six tokens and a blank-line marker of five.
BannerLen == 6 + 6 + 5

\* The storage struct: #[ink(storage)] occurs once and the first struct keyword
\* after it is followed by the identifier name.
OneStorageStruct(ts, name) ==
    /\ Count(ts, InkAttr(w_storage)) = 1
    /\ LET q == CHOOSE i \in Positions(ts, InkAttr(w_storage)) : TRUE
           s == FirstAfter(Positions(ts, <<Ident(w_struct)>>), q)
       IN  s # 0 /\ s < Len(ts) /\ ts[s + 1] = Ident(name)

(***************************************************************************)
(* C1                                                                      *)
(***************************************************************************)
\* C1 as stated: every token stream assemble_contract returns starts with the
\* crate-level attributes followed immediately by the signature banner, and holds
\* exactly one #[ink(storage)] struct, named by the input name unchanged.
C1_BannerRightAfterCrateAttrs ==
    \A i \in Returned :
      kind = "contract" =>
        /\ OccursAt(calls[i].ts, 1, CrateAttrs)
        /\ IsBannerAt(calls[i].ts, Len(CrateAttrs) + 1)
        /\ OneStorageStruct(calls[i].ts, cir.name)

\* C1 amended: every token stream assemble_contract returns starts with the
\* crate-level attributes, then one blank-line marker, then the signature banner
\* (two commentary markers and a blank-line marker), and holds exactly one
\* #[ink(storage)] struct, named by the input name unchanged.
C1_CrateAttrsBlankBannerOneStorage ==
    \A i \in Returned :
      kind = "contract" =>
        /\ OccursAt(calls[i].ts, 1, CrateAttrs \o Blank)
        /\ IsBannerAt(calls[i].ts, Len(CrateAttrs \o Blank) + 1)
        /\ OneStorageStruct(calls[i].ts, cir.name)

\* A contract with no fields and a name that snake-casing changes was assembled.
C1_Witness ==
    /\ kind = "contract"
    /\ cir.fields = <<>>
    /\ ToSnake(cir.name) # cir.name
    /\ Returned # {}

(***************************************************************************)
(* C2                                                                      *)
(***************************************************************************)
\* a < b byte-wise: a is a proper prefix of b, or the first byte that differs is
\* the smaller in a.
ByteLess(a, b) ==
    \E n \in 1..Len(b) :
      /\ \A j \in 1..(n - 1) : j <= Len(a) /\ a[j] = b[j]
      /\ n - 1 <= Len(a)
      /\ (n > Len(a) \/ Ord[a[n]] < Ord[b[n]])

\* Where the import statements start: after the banner of an interface, after
\* the opening brace of a contract module.
ImportsStart(ts) ==
    IF kind = "interface" THEN BannerLen + 1
    ELSE 4 + (CHOOSE i \in Positions(ts, <<Ident(w_pub), Ident(w_mod)>>) : TRUE)

\* The tokens from the start of the imports to the blank-line marker closing them.
ImportTokens(ts) ==
    LET from == ImportsStart(ts)
        to == FirstAfter(Positions(ts, Blank), from - 1)
    IN  SubSeq(ts, from, to - 1)

RECURSIVE Statements2Tokens(_)
Statements2Tokens(strings) ==
    IF strings = <<>> THEN <<>>
    ELSE FromStr(Head(strings)).ts \o Statements2Tokens(Tail(strings))

\* C2: the import statements of every returned token stream are those of the
\* input set, each once, in strictly ascending byte-wise order.
C2_ImportsSortedPermutation ==
    \A i \in Returned :
      \E order \in IterOrders(cir.imports) :
        /\ \A j \in 1..(Len(order) - 1) : ByteLess(order[j], order[j + 1])
        /\ ImportTokens(calls[i].ts) = Statements2Tokens(order)

\* Three imports, whose byte order is neither their length order nor their
\* case-insensitive order, were assembled.
C2_Witness ==
    /\ cir.imports = {t_use_a, t_use_B, t_use_ab}
    /\ Returned # {}

(***************************************************************************)
(* C3                                                                      *)
(***************************************************************************)
\* The indices of the fn keywords, ascending.  In a contract the first is the
\* constructor's; the functions (or, in a trait, the headers) follow.
FnKeywords(ts) == Ascending(Positions(ts, <<Ident(w_fn)>>))

\* C3: in every token stream assemble_contract returns, an external function is
\* declared pub fn <snake_name> right after exactly one message attribute,
\* #[ink(message, payable)] if it is payable and #[ink(message)] if not; a function
\* that is not external is declared fn _<snake_name>, not pub, and no attribute
\* precedes it, payable or not.
C3_MessageAttributeIffExternal ==
    \A i \in Returned :
      kind = "contract" =>
        LET ts == calls[i].ts
            fns == FnKeywords(ts)
        IN  /\ Len(fns) = Len(cir.functions) + 1
            /\ \A n \in 1..Len(cir.functions) :
                 LET h == cir.functions[n].header
                     p == fns[n + 1]
                 IN  IF h.external
                       THEN /\ ts[p - 1] = Ident(w_pub)
                            /\ ts[p + 1] = Ident(ToSnake(h.name))
                            /\ IF h.payable
                                 THEN /\ OccursAt(ts, p - 1 - Len(InkMessagePayable),
                                                  InkMessagePayable)
                                      /\ ts[p - 2 - Len(InkMessagePayable)] # Close("]")
                                 ELSE /\ OccursAt(ts, p - 1 - Len(InkAttr(w_message)),
                                                  InkAttr(w_message))
                                      /\ ts[p - 2 - Len(InkAttr(w_message))] # Close("]")
                       ELSE /\ ts[p + 1] = Ident(<<"_">> \o ToSnake(h.name))
                            /\ ts[p - 1] # Ident(w_pub)
                            /\ ts[p - 1] # Close("]")

\* A contract with a payable function that is not external, and with an external
\* payable one, was assembled.
C3_Witness ==
    /\ kind = "contract"
    /\ Returned # {}
    /\ \E n \in 1..Len(cir.functions) :
         ~cir.functions[n].header.external /\ cir.functions[n].header.payable
    /\ \E n \in 1..Len(cir.functions) :
         cir.functions[n].header.external /\ cir.functions[n].header.payable

(***************************************************************************)
(* C4                                                                      *)
(***************************************************************************)
RECURSIVE CommaSeparatedTypes(_)
CommaSeparatedTypes(params) ==
    IF params = <<>> THEN <<>>
    ELSE FromStr(Head(params).param_type).ts
           \o (IF Len(params) > 1 THEN <<Punct(",")>> ELSE <<>>)
           \o CommaSeparatedTypes(Tail(params))

\* No arrow, -> T, or -> (T, U, ...), by the number of return parameters alone.
ArrowFor(return_params) ==
    CASE Len(return_params) = 0 -> <<>>
      [] Len(return_params) = 1 -> Arrow \o FromStr(return_params[1].param_type).ts
      [] OTHER -> Arrow \o <<Open("(")>> \o CommaSeparatedTypes(return_params)
                    \o <<Close(")")>>

\* C4: in every returned token stream, what stands between the parameter list of
\* a function (of a trait method) and its body (its semicolon) is fixed by the
\* number of return parameters: nothing for none, -> T for one, -> (T, U, ...)
\* with the types in input order for two or more.
C4_ReturnArrowByCount ==
    \A i \in Returned :
      LET ts == calls[i].ts
          fns == FnKeywords(ts)
          headers ==
              IF kind = "contract"
                THEN [n \in 1..Len(cir.functions) |-> cir.functions[n].header]
                ELSE cir.function_headers
          skipped == IF kind = "contract" THEN 1 ELSE 0
          after == IF kind = "contract" THEN Open("{") ELSE Punct(";")
      IN  /\ Len(fns) = Len(headers) + skipped
          /\ \A n \in 1..Len(headers) :
               LET p == fns[n + skipped]
                   close == MatchingClose(ts, p + 2)
               IN  /\ ts[p + 2] = Open("(")
                   /\ close # 0
                   /\ OccursAt(ts, close + 1,
                               ArrowFor(headers[n].return_params) \o <<after>>)

\* A function with two or more return parameters was assembled.
C4_Witness ==
    /\ kind = "contract"
    /\ Returned # {}
    /\ \E n \in 1..Len(cir.functions) :
         Len(cir.functions[n].header.return_params) >= 2

(***************************************************************************)
(* C5                                                                      *)
(***************************************************************************)
\* pub type <Name>Ref = dyn <Name>;
AliasPhrase(name) ==
    <<Ident(w_pub), Ident(w_type), Ident(name \o s_Ref), Punct("="), Ident(w_dyn),
      Ident(name), Punct(";")>>

\* pub trait <Name> {
TraitPhrase(name) == <<Ident(w_pub), Ident(w_trait), Ident(name), Open("{")>>

\* The tokens between the braces of the trait.
TraitBody(ts, name) ==
    LET open == 3 + (CHOOSE p \in Positions(ts, TraitPhrase(name)) : TRUE)
    IN  SubSeq(ts, open + 1, MatchingClose(ts, open) - 1)

\* The semicolons that do not end a blank-line marker.
ItemSemicolons(ts) ==
    {p \in Positions(ts, <<Punct(";")>>) : ~OccursAt(ts, p - Len(Blank) + 1, Blank)}

\* C5: every token stream assemble_interface returns holds one alias
\* pub type <Name>Ref = dyn <Name>; and one pub trait <Name>, the alias first; the
\* trait holds one method per input header, in input order, each ended by a
\* semicolon, and no body.
C5_OneAliasThenOneTrait ==
    \A i \in Returned :
      kind = "interface" =>
        LET ts == calls[i].ts
        IN  /\ Count(ts, AliasPhrase(cir.name)) = 1
            /\ Count(ts, <<Ident(w_pub), Ident(w_type)>>) = 1
            /\ Count(ts, TraitPhrase(cir.name)) = 1
            /\ Count(ts, <<Ident(w_pub), Ident(w_trait)>>) = 1
            /\ \A a \in Positions(ts, AliasPhrase(cir.name)) :
                 \A t \in Positions(ts, TraitPhrase(cir.name)) : a < t
            /\ LET body == TraitBody(ts, cir.name)
                   fns == FnKeywords(body)
                   ends == Ascending(ItemSemicolons(body))
               IN  /\ Positions(body, <<Open("{")>>) = {}
                   /\ Len(fns) = Len(cir.function_headers)
                   /\ Len(ends) = Len(cir.function_headers)
                   /\ \A n \in 1..Len(fns) :
                        /\ body[fns[n] + 1] = Ident(ToSnake(cir.function_headers[n].name))
                        /\ fns[n] < ends[n]
                        /\ n < Len(fns) => ends[n] < fns[n + 1]
                   /\ fns # <<>> => ends[Len(ends)] = Len(body)

\* An interface with two or more function headers was assembled.
C5_Witness ==
    /\ kind = "interface"
    /\ Returned # {}
    /\ Len(cir.function_headers) >= 2

(***************************************************************************)
(* C6                                                                      *)
(***************************************************************************)
\* The identifiers that follow the n-th occurrence of a marker, offset tokens
\* after its start, are the names of the items, in order.
NamesFollow(ts, marker, offset, items) ==
    LET at == Ascending(Positions(ts, marker))
    IN  /\ Len(at) = Len(items)
        /\ \A n \in 1..Len(items) : ts[at[n] + offset] = Ident(items[n].name)

\* The event, enum and struct names stand in the output as in the input.
ItemNamesVerbatim(ts) ==
    /\ NamesFollow(ts, InkAttr(w_event), Len(InkAttr(w_event)) + 2, cir.events)
    /\ NamesFollow(ts, <<Ident(w_pub), Ident(w_enum)>>, 2, cir.enums)
    /\ NamesFollow(ts, DeriveStruct, Len(DeriveStruct) + 2, cir.structs)

\* C6: in every returned token stream each type-level identifier stands as in
\* the input: the event, enum and struct names, the interface name in the alias
\* and the trait, and the contract name both as the storage struct and as the
\* type the impl block is for.
C6_TypeNamesKeepCasing ==
    \A i \in Returned :
      LET ts == calls[i].ts
      IN  /\ ItemNamesVerbatim(ts)
          /\ kind = "interface" =>
               /\ Count(ts, AliasPhrase(cir.name)) = 1
               /\ Count(ts, TraitPhrase(cir.name)) = 1
          /\ kind = "contract" =>
               /\ OneStorageStruct(ts, cir.name)
               /\ \A p \in Positions(ts, <<Ident(w_impl)>>) : ts[p + 1] = Ident(cir.name)

(***************************************************************************)
(* C7                                                                      *)
(***************************************************************************)
\* C7: the calls made on one input all have the same outcome, token for token,
\* whatever order the HashSet of imports was drawn in by each.
C7_EqualInputsEqualOutputs ==
    \A i, j \in 1..Len(calls) : calls[i] = calls[j]

\* Two calls were made on an input whose import set has several iteration orders.
C7_Witness ==
    /\ Len(calls) >= 2
    /\ Cardinality(cir.imports) >= 2
    /\ Returned # {}

(***************************************************************************)
(* C8                                                                      *)
(***************************************************************************)
\* The tokens between the braces of the contract module.
ModuleBody(ts) ==
    LET open == 3 + (CHOOSE p \in Positions(ts, <<Ident(w_pub), Ident(w_mod)>>) : TRUE)
    IN  SubSeq(ts, open + 1, MatchingClose(ts, open) - 1)

\* C8: the module of a contract with no imports, events, enums, structs or
\* functions starts with the storage struct, and its only blank-line markers are
\* the one after the storage struct and the one after the constructor.
C8_EmptySectionsEmitNothing ==
    \A i \in Returned :
      ( /\ kind = "contract"
        /\ cir.imports = {}
        /\ cir.events = <<>>
        /\ cir.enums = <<>>
        /\ cir.structs = <<>>
        /\ cir.functions = <<>> ) =>
        /\ OccursAt(ModuleBody(calls[i].ts), 1, InkAttr(w_storage))
        /\ Count(ModuleBody(calls[i].ts), Blank) = 2

(***************************************************************************)
(* C9                                                                      *)
(***************************************************************************)
\* C9: every token stream assemble_interface returns holds the doc attributes
\* of the interface comments, in input order, before the alias.
C9_InterfaceCommentsBeforeAlias ==
    \A i \in Returned :
      (kind = "interface" /\ cir.comments # <<>>) =>
        \E p \in Positions(calls[i].ts, DocAttrs(cir.comments)) :
          \A a \in Positions(calls[i].ts, AliasPhrase(cir.name)) : p < a

(***************************************************************************)
(* C10                                                                     *)
(***************************************************************************)
\* Every index of the first set is below every index of the second.
AllBefore(first, second) == \A a \in first : \A b \in second : a < b

\* The function names, prefixed as assemble_functions declares them.
DeclaredName(header) ==
    Ident((IF header.external THEN <<>> ELSE <<"_">>) \o ToSnake(header.name))

\* C10: every token stream assemble_contract returns is laid out as crate-level
\* attributes, blank-line marker, banner, contract comments, then the module
\* holding the imports, the events, the enums, the structs, the storage struct
\* and the impl block, which holds the constructor and then the functions; the
\* events, enums, structs and functions stand in input order.
C10_SectionsInFixedOrder ==
    \A i \in Returned :
      kind = "contract" =>
        LET ts == calls[i].ts
            head == Len(CrateAttrs \o Blank)
            mod == Positions(ts, BrushAttr(w_contract) \o <<Ident(w_pub), Ident(w_mod)>>)
            imports == {ImportsStart(ts) - 1}
            blank == {FirstAfter(Positions(ts, Blank), ImportsStart(ts) - 1)}
            events == Positions(ts, InkAttr(w_event))
            enums == Positions(ts, <<Ident(w_pub), Ident(w_enum)>>)
            structs == Positions(ts, DeriveStruct)
            storage == Positions(ts, InkAttr(w_storage))
            impl == Positions(ts, <<Ident(w_impl)>>)
            constructor == Positions(ts, InkAttr(w_constructor))
            fns == FnKeywords(ts)
            functions == {fns[n] : n \in 2..Len(fns)}
            sections == <<mod, imports, blank, events, enums, structs, storage, impl,
                          constructor, {fns[1]}, functions>>
        IN  /\ OccursAt(ts, 1, CrateAttrs \o Blank)
            /\ IsBannerAt(ts, head + 1)
            /\ OccursAt(ts, head + BannerLen + 1, DocAttrs(cir.comments))
            /\ mod = {head + BannerLen + Len(DocAttrs(cir.comments)) + 1}
            /\ Cardinality(storage) = 1
            /\ Cardinality(impl) = 1
            /\ Cardinality(constructor) = 1
            /\ Len(fns) = Len(cir.functions) + 1
            /\ \A a, b \in 1..Len(sections) :
                 a < b => AllBefore(sections[a], sections[b])
            /\ ItemNamesVerbatim(ts)
            /\ \A n \in 1..Len(cir.functions) :
                 ts[fns[n + 1] + 1] = DeclaredName(cir.functions[n].header)
            /\ \A p \in impl :
                 /\ ts[p + 2] = Open("{")
                 /\ AllBefore(functions, {MatchingClose(ts, p + 2)})
                 /\ MatchingClose(ts, p + 2) = Len(ts) - 1

\* A contract with imports, comments and two or more events, enums, structs and
\* functions was assembled.
C10_Witness ==
    /\ kind = "contract"
    /\ Returned # {}
    /\ cir.imports # {}
    /\ cir.comments # <<>>
    /\ Len(cir.events) >= 2
    /\ Len(cir.enums) >= 2
    /\ Len(cir.structs) >= 2
    /\ Len(cir.functions) >= 2

(***************************************************************************)
(* C11                                                                     *)
(***************************************************************************)
\* The todo!() sentinel.
Todo == <<Ident(w_todo), Punct("!"), Open("("), Close(")")>>

\* The items the statements of a body stand for, in input order: the commentary
\* marker carrying the raw content for a comment, the tokens of the content
\* otherwise.
RECURSIVE StatementItems(_)
StatementItems(body) ==
    IF body = <<>> THEN <<>>
    ELSE (IF Head(body).comment
            THEN <<Ident(w_comment), Punct("!"), Open("("), StrLit(Head(body).content),
                   Close(")"), Punct(";")>>
            ELSE LexFrom(Head(body).content, 1, <<>>, <<>>).ts)
           \o StatementItems(Tail(body))

\* The tokens between the braces of the n-th function of a returned contract.
FunctionBodyTokens(ts, n) ==
    LET p == FnKeywords(ts)[n + 1]
        close == MatchingClose(ts, p + 2)
        open == close + 1 + Len(ArrowFor(cir.functions[n].header.return_params))
    IN  IF ts[open] = Open("{")
          THEN SubSeq(ts, open + 1, MatchingClose(ts, open) - 1)
          ELSE <<>>

\* C11: in every token stream assemble_contract returns, the body of each
\* function is one item per input statement in input order (the commentary marker
\* carrying the raw content when the comment flag is set, the tokenized content
\* otherwise) followed by exactly one todo!() as its last item, whether or not
\* the function has statements.
C11_BodyIsStatementsThenTodo ==
    \A i \in Returned :
      kind = "contract" =>
        \A n \in 1..Len(cir.functions) :
          LET body == FunctionBodyTokens(calls[i].ts, n)
          IN  /\ body = StatementItems(cir.functions[n].body) \o Todo
              /\ Count(body, Todo) = 1

\* A function with a commentary statement and a tokenized one, in both orders,
\* was assembled.
C11_Witness ==
    /\ kind = "contract"
    /\ Returned # {}
    /\ \E n \in 1..Len(cir.functions) :
         /\ Len(cir.functions[n].body) = 2
         /\ cir.functions[n].body[1].comment
         /\ ~cir.functions[n].body[2].comment

(***************************************************************************)
(* C12                                                                     *)
(***************************************************************************)
\* The string is a lexically valid fragment.
Tokenizes(s) == LexFrom(s, 1, <<>>, <<>>).ok

\* The elements of the sequences of a sequence of sequences.
Flatten(seqs) == UNION {Range(seqs[i]) : i \in 1..Len(seqs)}

\* The type strings of the items that events, structs and storage fields hold.
FieldTypes(items) == {f.field_type : f \in Flatten([i \in 1..Len(items) |-> items[i].fields])}

\* The type strings of the parameters and return parameters of headers.
HeaderTypes(headers) ==
    {p.param_type :
       p \in Flatten([i \in 1..Len(headers) |-> headers[i].params])
               \cup Flatten([i \in 1..Len(headers) |-> headers[i].return_params])}

\* Every type string of the input.
TypeStrings ==
    FieldTypes(cir.events) \cup FieldTypes(cir.structs)
      \cup (IF kind = "contract"
              THEN {f.field_type : f \in Range(cir.fields)}
                     \cup {p.param_type : p \in Range(cir.constructor.header.params)}
                     \cup HeaderTypes([i \in 1..Len(cir.functions) |->
                                           cir.functions[i].header])
              ELSE HeaderTypes(cir.function_headers))

\* The contents of the statements of the function bodies that are not commentary.
FunctionStatementContents ==
    IF kind = "contract"
      THEN {st.content :
              st \in {x \in Flatten([i \in 1..Len(cir.functions) |-> cir.functions[i].body]) :
                        ~x.comment}}
      ELSE {}

\* The contents of the statements of the constructor, whatever their comment flag.
ConstructorStatementsOf(flags) ==
    IF kind = "contract"
      THEN {st.content : st \in {x \in Range(cir.constructor.body) : x.comment \in flags}}
      ELSE {}

\* The stream is whole: its delimiters are balanced and it ends with the brace
\* closing the module (the trait).
Complete(ts) ==
    /\ ts # <<>>
    /\ ts[Len(ts)] = Close("}")
    /\ Nesting(ts, 1, Len(ts)) = 0

ConstructorBodyTokens(ts) ==
    LET p == CHOOSE x \in Positions(ts, <<Ident(w_Self), Punct("|"), Open("{")>>) : TRUE
    IN  SubSeq(ts, p + 3, MatchingClose(ts, p + 2) - 1)

\* C13: in every token stream assemble_contract returns, the body of the new
\* constructor holds exactly one line comment per statement of the constructor,
\* carrying the content of that statement, in input order and whatever the
\* comment flag of the statement; in a token stream a line comment is the
\* commentary marker _comment_!("<content>");
C13_ConstructorBodyIsLineComments ==
    \A i \in Returned :
      kind = "contract" =>
        LET body == ConstructorBodyTokens(calls[i].ts)
            markers == Ascending({x \in 1..Len(body) : IsCommentAt(body, x)})
        IN  /\ Len(markers) = Len(cir.constructor.body)
            /\ \A k \in 1..Len(markers) :
                 body[markers[k] + 3] = StrLit(cir.constructor.body[k].content)

====
